---- MODULE Spec2Model ----
(***************************************************************************)
(* Catalog service of video/image "solutions": the Video collection and    *)
(* the request handlers of videoController.js, with the validation chains  *)
(* of the router in front of them.                                         *)
(*                                                                         *)
(* Text that the code inspects character by character (query parameters    *)
(* that go through parseInt or new RegExp, request-body text that goes     *)
(* through trim/escape/split) is a sequence of one-character strings.      *)
(* Enumerated text that the code only compares for equality (type,         *)
(* difficulty, sortBy, sortOrder) is a TLA+ string.                        *)
(* A request's query or body is a function whose DOMAIN is the set of keys *)
(* that are present, as a JavaScript object is.                            *)
(***************************************************************************)
EXTENDS Integers, Sequences, FiniteSets, TLC

VARIABLES
    videos,   \* the Video collection: a sequence of documents, _id = index
    req,      \* the request the last handler served
    resp,     \* the response it sent, with the arguments it gave the store
    calls,    \* getVideoById invocations that overlap: each one's position
    ui        \* the page's VideoManager: its fields, timer and fetches in flight

vars == <<videos, req, resp, calls, ui>>

-----------------------------------------------------------------------------
(* Bounds of the model *)

\* the collection holds at most this many documents
MaxVideos == 1
\* the same, where only the listing is exercised
MaxListed == 2
\* the same, where deletions are followed among several documents
MaxFramed == 2
\* getVideoById stops incrementing a document's views at this value
MaxViews == 2
\* getVideoById invocations that may overlap
MaxCalls == 2
\* deletions that the page may have in flight
MaxDeletes == 1
\* uploads and deletions that the page's catalog takes
MaxChanges == 1

-----------------------------------------------------------------------------
(* JavaScript values *)

\* a field whose value is undefined/null in a stored document
Undefined == <<"undefined">>

\* a nullable number of a response: <<>> is null, <<n>> is n
Null == <<>>

Empty == [k \in {} |-> 0]

Has(o, k) == k \in DOMAIN o

\* const { k = d } = o : the default applies only when the key is missing
Param(o, k, d) == IF Has(o, k) THEN o[k] ELSE d

\* JavaScript truthiness of a text value that may be missing or ''
Truthy(o, k) == Has(o, k) /\ o[k] # <<>>

\* the same for an enumerated text
TruthyEnum(o, k) == Has(o, k) /\ o[k] # ""

Min(a, b) == IF a < b THEN a ELSE b
Abs(a) == IF a < 0 THEN -a ELSE a

Digits == {"0", "1", "2", "3", "4", "5", "6", "7", "8", "9"}

DigitVal(c) ==
    CASE c = "0" -> 0 [] c = "1" -> 1 [] c = "2" -> 2 [] c = "3" -> 3
      [] c = "4" -> 4 [] c = "5" -> 5 [] c = "6" -> 6 [] c = "7" -> 7
      [] c = "8" -> 8 [] c = "9" -> 9

RECURSIVE SkipSpaces(_)
SkipSpaces(s) == IF s # <<>> /\ Head(s) = " " THEN SkipSpaces(Tail(s)) ELSE s

RECURSIVE ReadDigits(_, _, _)
\* the value of the leading run of digits of s; any is FALSE when there is none
ReadDigits(s, acc, any) ==
    IF s # <<>> /\ Head(s) \in Digits
    THEN ReadDigits(Tail(s), 10 * acc + DigitVal(Head(s)), TRUE)
    ELSE [nan |-> ~any, v |-> acc]

\* parseInt(s, 10): leading white space, an optional sign, then digits up to
\* the first character that is none; NaN when there is no digit
ParseInt(s) ==
    LET t == SkipSpaces(s)
        neg == t # <<>> /\ Head(t) = "-"
        u == IF t # <<>> /\ Head(t) \in {"-", "+"} THEN Tail(t) ELSE t
        r == ReadDigits(u, 0, FALSE)
    IN  [nan |-> r.nan, v |-> IF neg THEN -r.v ELSE r.v]

\* parseInt(s, 10) || d : NaN and 0 are falsy
ParseIntOr(s, d) ==
    LET r == ParseInt(s) IN IF r.nan \/ r.v = 0 THEN d ELSE r.v

\* Math.ceil(a / b) for b # 0
CeilDiv(a, b) ==
    LET n == IF b < 0 THEN -a ELSE a
        d == Abs(b)
    IN  IF n >= 0 THEN (n + d - 1) \div d ELSE -((-n) \div d)

-----------------------------------------------------------------------------
(* Regular expressions built from request text: new RegExp(p, 'i') *)

ToLower(c) ==
    CASE c = "A" -> "a" [] c = "B" -> "b" [] c = "C" -> "c" [] c = "O" -> "o"
      [] c = "P" -> "p" [] OTHER -> c

\* new RegExp(p) throws a SyntaxError on an unterminated group
RegExpThrows(p) ==
    Cardinality({i \in 1..Len(p) : p[i] = "("}) # Cardinality({i \in 1..Len(p) : p[i] = ")"})

\* one pattern character against one subject character, flag i
CharMatches(pc, c) == pc = "." \/ ToLower(pc) = ToLower(c)

\* p, a sequence of literals and '.', matches somewhere in text t
RegExpTest(p, t) ==
    t # Undefined /\
    \E i \in 0..(Len(t) - Len(p)) :
        \A j \in 1..Len(p) : CharMatches(p[j], t[i + j])

-----------------------------------------------------------------------------
(* The store's cursor: find(query).sort(sortOptions).skip(skip).limit(n) *)

\* code unit order of the characters the model's titles are written in
CharCode(c) ==
    CASE c = " " -> 32 [] c = "&" -> 38 [] c = "A" -> 65 [] c = "B" -> 66
      [] c = "C" -> 67 [] c = "O" -> 79 [] c = "P" -> 80 [] c = "a" -> 97
      [] c = "1" -> 49 [] c = "2" -> 50 [] c = "b" -> 98 [] c = "c" -> 99 [] c = "o" -> 111 [] c = "p" -> 112
      [] OTHER -> 120

RECURSIVE StrLeq(_, _)
\* a <= b in the store's binary string order
StrLeq(a, b) ==
    IF a = <<>> THEN TRUE
    ELSE IF b = <<>> THEN FALSE
    ELSE IF Head(a) = Head(b) THEN StrLeq(Tail(a), Tail(b))
    ELSE CharCode(Head(a)) < CharCode(Head(b))

\* document a sorts no later than document b under { field: 1 }; a path the
\* schema does not have is null in every document, so all documents tie
KeyLeq(a, b, field) ==
    CASE field = "createdAt" -> a.createdAt <= b.createdAt
      [] field = "updatedAt" -> a.updatedAt <= b.updatedAt
      [] field = "title" -> StrLeq(a.title, b.title)
      [] field = "views" -> a.views <= b.views
      [] field = "likes" -> a.likes <= b.likes
      [] OTHER -> TRUE

\* the orders in which the store may return the documents ids under a sort of
\* direction dir (1 or -1): documents with equal keys come in any order
SortedOrders(ids, field, dir) ==
    LET n == Cardinality(ids)
    IN  { s \in [1..n -> ids] :
            /\ \A i, j \in 1..n : i # j => s[i] # s[j]
            /\ \A i \in 1..n : \A j \in 1..n :
                 i < j => IF dir = 1
                          THEN KeyLeq(videos[s[i]], videos[s[j]], field)
                          ELSE KeyLeq(videos[s[j]], videos[s[i]], field) }

\* cursor.skip(k) of a sequence, k >= 0
Skip(s, k) == IF k >= Len(s) THEN <<>> ELSE SubSeq(s, k + 1, Len(s))

\* cursor.limit(n): 0 is no limit, a negative n is a limit of -n in one batch
Limit(s, n) == IF n = 0 THEN s ELSE SubSeq(s, 1, Min(Abs(n), Len(s)))

-----------------------------------------------------------------------------
(* Text helpers of the validation chains *)

RECURSIVE DropTrailingSpaces(_)
DropTrailingSpaces(s) ==
    IF s # <<>> /\ s[Len(s)] = " " THEN DropTrailingSpaces(SubSeq(s, 1, Len(s) - 1)) ELSE s

\* String.prototype.trim / the trim() sanitizer
Trim(s) == DropTrailingSpaces(SkipSpaces(s))

RECURSIVE Escape(_)
\* the escape() sanitizer: HTML special characters become entities
Escape(s) ==
    IF s = <<>> THEN <<>>
    ELSE (CASE Head(s) = "&" -> <<"&", "a", "m", "p", ";">>
            [] Head(s) = "<" -> <<"&", "l", "t", ";">>
            [] Head(s) = ">" -> <<"&", "g", "t", ";">>
            [] Head(s) = "/" -> <<"&", "#", "x", "2", "F", ";">>
            [] OTHER -> <<Head(s)>>) \o Escape(Tail(s))

RECURSIVE Split(_, _)
\* s.split(sep) for a one-character separator
Split(s, sep) ==
    IF \A i \in 1..Len(s) : s[i] # sep THEN <<s>>
    ELSE LET k == CHOOSE i \in 1..Len(s) : s[i] = sep /\ \A j \in 1..(i - 1) : s[j] # sep
         IN  <<SubSeq(s, 1, k - 1)>> \o Split(SubSeq(s, k + 1, Len(s)), sep)

\* tags.split(',').map(tag => tag.trim())
SplitTags(s) == LET parts == Split(s, ",") IN [i \in 1..Len(parts) |-> Trim(parts[i])]

\* s starts, at position i, with the literal lit
StartsAt(s, i, lit) ==
    i + Len(lit) - 1 <= Len(s) /\ \A j \in 1..Len(lit) : s[i + j - 1] = lit[j]

-----------------------------------------------------------------------------
(* YouTube links *)

Http == <<"h", "t", "t", "p", ":", "/", "/">>
Https == <<"h", "t", "t", "p", "s", ":", "/", "/">>
Www == <<"w", "w", "w", ".">>
YoutubeCom == <<"y", "o", "u", "t", "u", "b", "e", ".", "c", "o", "m", "/">>
WatchMarker == YoutubeCom \o <<"w", "a", "t", "c", "h", "?", "v", "=">>
ShortMarker == <<"y", "o", "u", "t", "u", ".", "b", "e", "/">>
EmbedMarker == YoutubeCom \o <<"e", "m", "b", "e", "d", "/">>
LegacyMarker == YoutubeCom \o <<"v", "/">>

\* [a-zA-Z0-9_-]
IdChars ==
    Digits \cup {"_", "-"} \cup
    {"a", "b", "c", "d", "e", "f", "g", "h", "i", "j", "k", "l", "m", "n", "o",
     "p", "q", "r", "s", "t", "u", "v", "w", "x", "y", "z"} \cup
    {"A", "B", "C", "D", "E", "F", "G", "H", "I", "J", "K", "L", "M", "N", "O",
     "P", "Q", "R", "S", "T", "U", "V", "W", "X", "Y", "Z"}

\* the characters [^&\n?#] stops at
Delims == {"&", "\n", "?", "#"}

RECURSIVE TakeWhileNot(_, _)
TakeWhileNot(s, stop) ==
    IF s = <<>> \/ Head(s) \in stop THEN <<>>
    ELSE <<Head(s)>> \o TakeWhileNot(Tail(s), stop)

\* match[1] of url.match(/(?:https?:\/\/)?(?:www\.)?MARKER([^&\n?#]+)/), or
\* Undefined when the pattern matches nowhere
MatchPattern(url, marker) ==
    LET hits == {i \in 1..Len(url) :
                    /\ StartsAt(url, i, marker)
                    /\ i + Len(marker) <= Len(url)
                    /\ url[i + Len(marker)] \notin Delims}
    IN  IF hits = {} THEN Undefined
        ELSE LET i == CHOOSE h \in hits : \A g \in hits : h <= g
             IN  TakeWhileNot(SubSeq(url, i + Len(marker), Len(url)), Delims)

\* the first of the four patterns that matches decides
extractYoutubeVideoId(url) ==
    LET ids == [k \in 1..4 |->
                   MatchPattern(url, <<WatchMarker, ShortMarker, EmbedMarker, LegacyMarker>>[k])]
        ok == {k \in 1..4 : ids[k] # Undefined}
    IN  IF ok = {} THEN Undefined
        ELSE ids[CHOOSE k \in ok : \A j \in ok : k <= j]

\* eleven identifier characters at position i of s
ElevenAt(s, i) == i + 10 <= Len(s) /\ \A j \in i..(i + 10) : s[j] \in IdChars

\* /^(https?:\/\/)?(www\.)?(youtube\.com\/watch\?v=|youtu\.be\/|youtube\.com\/embed\/)([a-zA-Z0-9_-]{11})/
youtubeRegexTest(url) ==
    \E scheme \in {<<>>, Http, Https}, www \in {<<>>, Www},
       marker \in {WatchMarker, ShortMarker, EmbedMarker} :
        LET prefix == scheme \o www \o marker
        IN  StartsAt(url, 1, prefix) /\ ElevenAt(url, Len(prefix) + 1)

\* match[1] of the pre-save hook's unanchored pattern, or Undefined
preSaveMatch(url) ==
    LET hits == {i \in 1..Len(url) :
                    \E marker \in {WatchMarker, ShortMarker, EmbedMarker} :
                        StartsAt(url, i, marker) /\ ElevenAt(url, i + Len(marker))}
    IN  IF hits = {} THEN Undefined
        ELSE LET i == CHOOSE h \in hits : \A g \in hits : h <= g
                 marker == CHOOSE m \in {WatchMarker, ShortMarker, EmbedMarker} :
                               StartsAt(url, i, m) /\ ElevenAt(url, i + Len(m))
             IN  SubSeq(url, i + Len(marker), i + Len(marker) + 10)

\* utils/youtube.js extractVideoId: null for no url, else match[1] of the same
\* unanchored three-shape pattern, or null
extractVideoId(url) == IF url = <<>> THEN Undefined ELSE preSaveMatch(url)

\* `https://img.youtube.com/vi/${id}/maxresdefault.jpg`
Thumbnail(id) ==
    IF id = Undefined THEN Undefined
    ELSE Https \o <<"i", "m", "g", ".">> \o YoutubeCom \o <<"v", "i", "/">> \o id
         \o <<"/", "m", "a", "x", "r", "e", "s", "d", "e", "f", "a", "u", "l", "t",
              ".", "j", "p", "g">>

\* the isURL() validator of the chain, as far as the model's links exercise it:
\* no white space, a scheme (when there is one) of http/https/ftp, a dotted host
IsURL(s) ==
    LET scheme == IF StartsAt(s, 1, Https) THEN Len(Https)
                  ELSE IF StartsAt(s, 1, Http) THEN Len(Http) ELSE 0
        rest == SubSeq(s, scheme + 1, Len(s))
        host == TakeWhileNot(rest, {"/", "?", "#"})
    IN  /\ \A i \in 1..Len(s) : s[i] # " "
        /\ \A i \in 1..Len(host) : host[i] # ":"
        /\ \E i \in 2..(Len(host) - 1) : host[i] = "."

\* String(n) of a number that is a natural: its decimal digits
RECURSIVE NumberText(_)
NumberText(n) ==
    IF n < 10 THEN <<<<"0", "1", "2", "3", "4", "5", "6", "7", "8", "9">>[n + 1]>>
    ELSE NumberText(n \div 10) \o NumberText(n % 10)

\* URLSearchParams.toString(): key=value pairs joined by &; the keys and
\* values of getEmbedUrl have no character that is percent-encoded
RECURSIVE ParamsToString(_)
ParamsToString(params) ==
    IF params = <<>> THEN <<>>
    ELSE Head(params)[1] \o <<"=">> \o Head(params)[2]
         \o (IF Len(params) > 1 THEN <<"&">> ELSE <<>>) \o ParamsToString(Tail(params))

\* the names of the query parameters, by option
ParamKey ==
    [autoplay |-> <<"a", "u", "t", "o", "p", "l", "a", "y">>,
     mute |-> <<"m", "u", "t", "e">>,
     controls |-> <<"c", "o", "n", "t", "r", "o", "l", "s">>,
     showinfo |-> <<"s", "h", "o", "w", "i", "n", "f", "o">>,
     rel |-> <<"r", "e", "l">>,
     start |-> <<"s", "t", "a", "r", "t">>,
     end |-> <<"e", "n", "d">>]

\* flag ? '1' : '0'
FlagText(flag) == IF flag THEN <<"1">> ELSE <<"0">>

\* youtube.js getEmbedUrl(videoId, options): options is the object of the
\* supplied options, flags as booleans and offsets as numbers
getEmbedUrl(videoId, options) ==
    IF videoId = <<>> THEN Null
    ELSE
      LET baseUrl == Https \o Www \o EmbedMarker \o videoId
          params ==
              (IF Has(options, "autoplay") /\ options.autoplay
               THEN <<<<ParamKey.autoplay, <<"1">>>>>> ELSE <<>>)
              \o (IF Has(options, "mute") /\ options.mute
                  THEN <<<<ParamKey.mute, <<"1">>>>>> ELSE <<>>)
              \o (IF Has(options, "controls")
                  THEN <<<<ParamKey.controls, FlagText(options.controls)>>>> ELSE <<>>)
              \o (IF Has(options, "showinfo")
                  THEN <<<<ParamKey.showinfo, FlagText(options.showinfo)>>>> ELSE <<>>)
              \o (IF Has(options, "rel")
                  THEN <<<<ParamKey.rel, FlagText(options.rel)>>>> ELSE <<>>)
              \o (IF Has(options, "start") /\ options.start # 0
                  THEN <<<<ParamKey.start, NumberText(options.start)>>>> ELSE <<>>)
              \o (IF Has(options, "end") /\ options.end # 0
                  THEN <<<<ParamKey.end, NumberText(options.end)>>>> ELSE <<>>)
          queryString == ParamsToString(params)
      IN  IF queryString # <<>> THEN baseUrl \o <<"?">> \o queryString ELSE baseUrl


-----------------------------------------------------------------------------
(* Requests the model sends *)

\* the request objects that carry key k with a value of S, or lack it
Opt(k, S) == {Empty} \cup {k :> v : v \in S}

\* ids of requests: the ids the collection can hold, and one that is no ObjectId
BadId == 0
RequestIds == 0..MaxVideos

IsObjectId(id) == id # BadId

Exists(id) == id \in 1..Len(videos)

-----------------------------------------------------------------------------
(* GET /api/videos : queryValidationRules(), getAllVideos *)

\* the clauses the listing adds to its query object for the filters of q
listFilters(q, v) ==
    /\ Truthy(q, "bookTitle") => RegExpTest(q.bookTitle, v.bookTitle)
    /\ Truthy(q, "chapter") => RegExpTest(q.chapter, v.chapter)
    /\ TruthyEnum(q, "type") => v.type = q.type
    /\ Truthy(q, "subject") => RegExpTest(q.subject, v.subject)
    /\ Truthy(q, "grade") => v.grade = q.grade
    /\ TruthyEnum(q, "difficulty") => v.difficulty = q.difficulty
    /\ Truthy(q, "search") =>
         \/ RegExpTest(q.search, v.title)
         \/ RegExpTest(q.search, v.description)
         \/ RegExpTest(q.search, v.bookTitle)
         \/ RegExpTest(q.search, v.chapter)
         \/ \E i \in 1..Len(v.tags) : RegExpTest(q.search, v.tags[i])

\* the listing's query without its isActive clause
listQueryAnyActivity(q, v) == listFilters(q, v)

\* the documents the listing's query object selects: { isActive: true } and
\* the filters
listQuery(q, v) == v.isActive = TRUE /\ listFilters(q, v)

\* building the query object throws when a pattern is no regular expression
listQueryThrows(q) ==
    \E k \in {"bookTitle", "chapter", "subject", "search"} :
        Truthy(q, k) /\ RegExpThrows(q[k])

pageNumberOf(q) == ParseIntOr(Param(q, "page", <<"1">>), 1)

pageSizeOf(q) == Min(ParseIntOr(Param(q, "limit", <<"1", "0">>), 10), 50)

skipOf(q) == (pageNumberOf(q) - 1) * pageSizeOf(q)

sortFieldOf(q) == Param(q, "sortBy", "createdAt")

sortDirOf(q) == IF Param(q, "sortOrder", "desc") = "desc" THEN -1 ELSE 1

\* the pagination object of the response
paginationOf(pageNumber, pageSize, totalCount) ==
    LET totalPages == CeilDiv(totalCount, pageSize)
        hasNextPage == pageNumber < totalPages
        hasPrevPage == pageNumber > 1
    IN  [currentPage |-> pageNumber,
         totalPages |-> totalPages,
         totalCount |-> totalCount,
         hasNextPage |-> hasNextPage,
         hasPrevPage |-> hasPrevPage,
         nextPage |-> IF hasNextPage THEN <<pageNumber + 1>> ELSE Null,
         prevPage |-> IF hasPrevPage THEN <<pageNumber - 1>> ELSE Null]

\* what the handler hands the store
listArgs(q) ==
    [pageNumber |-> pageNumberOf(q), pageSize |-> pageSizeOf(q), skip |-> skipOf(q),
     sortField |-> sortFieldOf(q), sortDir |-> sortDirOf(q)]

\* the handler with query string q; storeUp is FALSE when the store fails.
\* The validation chain in front of it only records its findings in the
\* request: the handler never reads them.
getAllVideos(q, storeUp) ==
    /\ req' = [op |-> "getAllVideos", query |-> q]
    /\ UNCHANGED videos
    /\ IF listQueryThrows(q)
       THEN resp' = [op |-> "getAllVideos", status |-> 500, issued |-> FALSE]
       ELSE IF ~storeUp \/ skipOf(q) < 0
       THEN resp' = [op |-> "getAllVideos", status |-> 500, issued |-> TRUE,
                     args |-> listArgs(q)]
       ELSE LET ids == {i \in 1..Len(videos) : listQuery(q, videos[i])}
            IN  \E order \in SortedOrders(ids, sortFieldOf(q), sortDirOf(q)) :
                    resp' = [op |-> "getAllVideos", status |-> 200, issued |-> TRUE,
                             args |-> listArgs(q),
                             data |-> Limit(Skip(order, skipOf(q)), pageSizeOf(q)),
                             pagination |-> paginationOf(pageNumberOf(q), pageSizeOf(q),
                                                         Cardinality(ids))]

-----------------------------------------------------------------------------
(* The Video schema *)

\* every path of a stored document the model follows
Paths ==
    {"title", "description", "bookTitle", "chapter", "type", "youtubeUrl",
     "youtubeVideoId", "thumbnailUrl", "fileUrl", "tags", "difficulty", "subject",
     "grade", "views", "likes", "isActive", "createdAt", "updatedAt"}

\* new Video(videoData): the given paths, the schema defaults for the others
NewVideo(videoData, now) ==
    [title |-> Param(videoData, "title", Undefined),
     description |-> Param(videoData, "description", Undefined),
     bookTitle |-> Param(videoData, "bookTitle", Undefined),
     chapter |-> Param(videoData, "chapter", Undefined),
     type |-> Param(videoData, "type", "video"),
     youtubeUrl |-> Param(videoData, "youtubeUrl", Undefined),
     youtubeVideoId |-> Param(videoData, "youtubeVideoId", Undefined),
     thumbnailUrl |-> Thumbnail(Param(videoData, "youtubeVideoId", Undefined)),
     fileUrl |-> Param(videoData, "fileUrl", Undefined),
     tags |-> Param(videoData, "tags", <<>>),
     difficulty |-> Param(videoData, "difficulty", "medium"),
     subject |-> Param(videoData, "subject", Undefined),
     grade |-> Param(videoData, "grade", Undefined),
     views |-> 0,
     likes |-> 0,
     isActive |-> TRUE,
     createdAt |-> now,
     updatedAt |-> now]

\* the schema's validators, as document.save() runs them
schemaValid(v) ==
    /\ v.title # Undefined /\ v.description # Undefined
    /\ v.bookTitle # Undefined /\ v.chapter # Undefined
    /\ v.type \in {"video", "image"}
    /\ v.difficulty \in {"easy", "medium", "hard"}
    /\ v.type = "video" =>
         /\ v.youtubeUrl # Undefined /\ youtubeRegexTest(v.youtubeUrl)
         /\ v.youtubeVideoId # Undefined
    /\ v.type = "image" => v.fileUrl # Undefined
    /\ \A i \in 1..Len(v.tags) : Len(v.tags[i]) <= 30

\* videoSchema.pre('save')
preSave(v) ==
    IF v.youtubeUrl # Undefined /\ v.type = "video" /\ preSaveMatch(v.youtubeUrl) # Undefined
    THEN [v EXCEPT !.youtubeVideoId = preSaveMatch(v.youtubeUrl),
                   !.thumbnailUrl = Thumbnail(preSaveMatch(v.youtubeUrl))]
    ELSE v

\* timestamps: the store keeps updatedAt; the model keeps its order only, as
\* the rank of each document's last write among the documents
Touch(vs, id) ==
    [i \in 1..Len(vs) |->
        IF i = id THEN [vs[i] EXCEPT !.updatedAt = Len(vs)]
        ELSE IF vs[i].updatedAt > vs[id].updatedAt
        THEN [vs[i] EXCEPT !.updatedAt = @ - 1]
        ELSE vs[i]]

\* an incrementViews that computes views + 1 and does not assign it
incrementViewsDropped(v) == v

\* videoSchema.methods.incrementViews: this.views += 1
incrementViews(v) == [v EXCEPT !.views = @ + 1]

-----------------------------------------------------------------------------
(* GET /api/videos/:id : validateObjectId(), getVideoById *)

getVideoById(id, storeUp) ==
    /\ req' = [op |-> "getVideoById", id |-> id]
    /\ IF ~IsObjectId(id)
       THEN /\ resp' = [op |-> "getVideoById", status |-> 400]
            /\ UNCHANGED videos
       ELSE IF ~storeUp
       THEN /\ resp' = [op |-> "getVideoById", status |-> 500]
            /\ UNCHANGED videos
       ELSE IF ~Exists(id) \/ ~videos[id].isActive
       THEN /\ resp' = [op |-> "getVideoById", status |-> 404]
            /\ UNCHANGED videos
       ELSE IF ~schemaValid(incrementViews(videos[id]))
       THEN /\ resp' = [op |-> "getVideoById", status |-> 500]
            /\ UNCHANGED videos
       ELSE LET saved == preSave(incrementViews(videos[id]))
            IN  /\ saved.views <= MaxViews
                /\ videos' = Touch([videos EXCEPT ![id] = saved], id)
                /\ resp' = [op |-> "getVideoById", status |-> 200,
                            data |-> videos'[id]]

-----------------------------------------------------------------------------
(* DELETE /api/videos/:id : validateObjectId(), deleteVideo *)

\* a deleteVideo that removes the document: findByIdAndDelete
deleteVideoHard(id, storeUp) ==
    /\ req' = [op |-> "deleteVideo", id |-> id]
    /\ IF ~IsObjectId(id)
       THEN /\ resp' = [op |-> "deleteVideo", status |-> 400]
            /\ UNCHANGED videos
       ELSE IF ~storeUp
       THEN /\ resp' = [op |-> "deleteVideo", status |-> 500]
            /\ UNCHANGED videos
       ELSE IF ~Exists(id)
       THEN /\ resp' = [op |-> "deleteVideo", status |-> 404]
            /\ UNCHANGED videos
       ELSE /\ videos' = SubSeq(videos, 1, id - 1) \o SubSeq(videos, id + 1, Len(videos))
            /\ resp' = [op |-> "deleteVideo", status |-> 200]

deleteVideo(id, storeUp) ==
    /\ req' = [op |-> "deleteVideo", id |-> id]
    /\ IF ~IsObjectId(id)
       THEN /\ resp' = [op |-> "deleteVideo", status |-> 400]
            /\ UNCHANGED videos
       ELSE IF ~storeUp
       THEN /\ resp' = [op |-> "deleteVideo", status |-> 500]
            /\ UNCHANGED videos
       ELSE IF ~Exists(id)
       THEN /\ resp' = [op |-> "deleteVideo", status |-> 404]
            /\ UNCHANGED videos
       ELSE /\ videos' = Touch([videos EXCEPT ![id].isActive = FALSE], id)
            /\ resp' = [op |-> "deleteVideo", status |-> 200]

-----------------------------------------------------------------------------
(* videoValidationRules() : the chain in front of createVideo and updateVideo *)

\* the value a chain validates when the field is missing is ''
Field(body, k) == Param(body, k, <<>>)

IsLength(s, min, max) == Len(s) >= min /\ Len(s) <= max

tagsValid(value) ==
    LET tags == SplitTags(value)
    IN  Len(tags) <= 10 /\ \A i \in 1..Len(tags) : Len(tags[i]) <= 30

\* validationResult(req).isEmpty() for the body chains
videoValidationPasses(body) ==
    /\ IsLength(Trim(Field(body, "title")), 3, 200)
    /\ IsLength(Trim(Field(body, "description")), 10, 1000)
    /\ IsLength(Trim(Field(body, "bookTitle")), 2, 100)
    /\ IsLength(Trim(Field(body, "chapter")), 1, 50)
    /\ Param(body, "type", "") \in {"video", "image"}
    /\ Has(body, "youtubeUrl") => IsURL(body.youtubeUrl) /\ youtubeRegexTest(body.youtubeUrl)
    /\ Has(body, "tags") => tagsValid(body.tags)
    /\ Has(body, "difficulty") => body.difficulty \in {"easy", "medium", "hard"}
    /\ Has(body, "subject") => IsLength(Trim(body.subject), 0, 50)
    /\ Has(body, "grade") => IsLength(Trim(body.grade), 0, 20)

\* the body after the chains' sanitizers
sanitized(body) ==
    [k \in DOMAIN body |->
        IF k \in {"title", "description", "bookTitle", "chapter", "subject", "grade"}
        THEN Escape(Trim(body[k]))
        ELSE body[k]]

-----------------------------------------------------------------------------
(* POST /api/videos : uploadMiddleware, videoValidationRules(), createVideo *)

\* `/uploads/${req.file.filename}` for the one file name the model uploads
UploadedFileUrl == <<"/", "u", "p", "l", "o", "a", "d", "s", "/", "f", ".", "p", "n", "g">>

\* the videoData object the handler builds from the sanitized body b
videoDataOf(b, hasFile) ==
    [k \in {"title", "description", "bookTitle", "chapter", "type", "difficulty",
            "subject", "grade"} \cap (DOMAIN b \cup {"title"}) |->
        IF k = "title" THEN (IF Truthy(b, "title") THEN b.title ELSE Field(b, "bookTitle"))
        ELSE b[k]]
    @@ ("tags" :> IF Truthy(b, "tags") THEN SplitTags(b.tags) ELSE <<>>)
    @@ (IF b.type = "video"
        THEN ("youtubeUrl" :> b.youtubeUrl)
             @@ ("youtubeVideoId" :> extractYoutubeVideoId(b.youtubeUrl))
        ELSE Empty)
    @@ (IF b.type = "image" /\ hasFile THEN "fileUrl" :> UploadedFileUrl ELSE Empty)

\* a createVideo that checks that a video has a link, and reads neither the
\* validation result nor the extractor's
createVideoUnchecked(body, hasFile, storeUp) ==
    /\ req' = [op |-> "createVideo", body |-> body, file |-> hasFile]
    /\ IF body.type = "video" /\ ~Truthy(body, "youtubeUrl")
       THEN /\ resp' = [op |-> "createVideo", status |-> 400]
            /\ UNCHANGED videos
       ELSE LET video == NewVideo(videoDataOf(sanitized(body), hasFile), Len(videos) + 1)
            IN  IF ~storeUp \/ ~schemaValid(video)
                THEN /\ resp' = [op |-> "createVideo", status |-> 500]
                     /\ UNCHANGED videos
                ELSE /\ videos' = Append(videos, preSave(video))
                     /\ resp' = [op |-> "createVideo", status |-> 201,
                                 id |-> Len(videos) + 1]

createVideo(body, hasFile, storeUp) ==
    /\ req' = [op |-> "createVideo", body |-> body, file |-> hasFile]
    /\ IF ~videoValidationPasses(body)
       THEN /\ resp' = [op |-> "createVideo", status |-> 400]
            /\ UNCHANGED videos
       ELSE LET b == sanitized(body)
            IN  IF b.type = "video" /\
                   (~Truthy(b, "youtubeUrl") \/ extractYoutubeVideoId(b.youtubeUrl) = Undefined)
                THEN /\ resp' = [op |-> "createVideo", status |-> 400]
                     /\ UNCHANGED videos
                ELSE LET video == NewVideo(videoDataOf(b, hasFile), Len(videos) + 1)
                     IN  IF ~storeUp \/ ~schemaValid(video)
                         THEN /\ resp' = [op |-> "createVideo", status |-> 500]
                              /\ UNCHANGED videos
                         ELSE /\ videos' = Append(videos, preSave(video))
                              /\ resp' = [op |-> "createVideo", status |-> 201,
                                          id |-> Len(videos) + 1]

-----------------------------------------------------------------------------
(* PUT /api/videos/:id : validateObjectId(), uploadMiddleware,
   videoValidationRules(), updateVideo *)

\* the paths findByIdAndUpdate may set: the schema's, less the store-managed
Updatable == Paths \ {"createdAt", "updatedAt"}

\* { ...req.body } with a tags string split
updateDataOf(b) ==
    [k \in DOMAIN b |-> IF k = "tags" THEN SplitTags(b.tags) ELSE b[k]]

\* the document after $set of the update's schema paths
applyUpdate(v, updateData) ==
    [k \in DOMAIN v |->
        IF k \in DOMAIN updateData \cap Updatable THEN updateData[k] ELSE v[k]]

\* runValidators: true checks the paths the update sets, each on its own: the
\* enums and the tag length. The required functions and the youtubeUrl
\* validator read this.type, which is not the document's in an update, so
\* they let every value through.
updateValidatorsPass(updateData) ==
    /\ Has(updateData, "type") => updateData.type \in {"video", "image"}
    /\ Has(updateData, "difficulty") => updateData.difficulty \in {"easy", "medium", "hard"}
    /\ Has(updateData, "tags") =>
         \A i \in 1..Len(updateData.tags) : Len(updateData.tags[i]) <= 30

updateVideo(id, body, storeUp) ==
    /\ req' = [op |-> "updateVideo", id |-> id, body |-> body]
    /\ IF ~IsObjectId(id) \/ ~videoValidationPasses(body)
       THEN /\ resp' = [op |-> "updateVideo", status |-> 400]
            /\ UNCHANGED videos
       ELSE IF ~storeUp \/ ~updateValidatorsPass(updateDataOf(sanitized(body)))
       THEN /\ resp' = [op |-> "updateVideo", status |-> 500]
            /\ UNCHANGED videos
       ELSE IF ~Exists(id)
       THEN /\ resp' = [op |-> "updateVideo", status |-> 404]
            /\ UNCHANGED videos
       ELSE LET updated == applyUpdate(videos[id], updateDataOf(sanitized(body)))
            IN  /\ updated.views <= MaxViews
                /\ videos' = Touch([videos EXCEPT ![id] = updated], id)
                /\ resp' = [op |-> "updateVideo", status |-> 200, data |-> videos'[id]]

-----------------------------------------------------------------------------
(* GET /api/videos/metadata/books, /metadata/chapters/:bookTitle, /stats *)

RECURSIVE SortStrings(_)
\* Array.prototype.sort() of a set of distinct strings
SortStrings(S) ==
    IF S = {} THEN <<>>
    ELSE LET m == CHOOSE x \in S : \A y \in S : StrLeq(x, y)
         IN  <<m>> \o SortStrings(S \ {m})

RECURSIVE SumViews(_)
\* $group: { totalViews: { $sum: '$views' } } over the documents ids
SumViews(ids) ==
    IF ids = {} THEN 0
    ELSE LET i == CHOOSE x \in ids : TRUE IN videos[i].views + SumViews(ids \ {i})

getUniqueBooks(storeUp) ==
    /\ req' = [op |-> "getUniqueBooks"]
    /\ UNCHANGED videos
    /\ IF ~storeUp
       THEN resp' = [op |-> "getUniqueBooks", status |-> 500]
       ELSE resp' = [op |-> "getUniqueBooks", status |-> 200,
                     data |-> SortStrings({videos[i].bookTitle :
                                             i \in {j \in 1..Len(videos) : videos[j].isActive = TRUE}})]

\* the documents getChaptersByBook's distinct() reads
chaptersQuery(bookTitle, v) == RegExpTest(bookTitle, v.bookTitle) /\ v.isActive = TRUE

\* validateBookTitle() sanitizes the parameter; its findings are never read
getChaptersByBook(param, storeUp) ==
    LET bookTitle == Escape(Trim(param))
    IN  /\ req' = [op |-> "getChaptersByBook", bookTitle |-> param]
        /\ UNCHANGED videos
        /\ IF RegExpThrows(bookTitle) \/ ~storeUp
           THEN resp' = [op |-> "getChaptersByBook", status |-> 500]
           ELSE resp' = [op |-> "getChaptersByBook", status |-> 200,
                         data |-> SortStrings({videos[i].chapter :
                                    i \in {j \in 1..Len(videos) :
                                             chaptersQuery(bookTitle, videos[j])}})]

\* the documents every query and pipeline of getVideoStats starts from
statsMatch(v) == v.isActive = TRUE

getVideoStats(storeUp) ==
    /\ req' = [op |-> "getVideoStats"]
    /\ UNCHANGED videos
    /\ IF ~storeUp
       THEN resp' = [op |-> "getVideoStats", status |-> 500]
       ELSE LET active == {i \in 1..Len(videos) : statsMatch(videos[i])}
                totalVideos == Cardinality({i \in active : videos[i].type = "video"})
                totalImages == Cardinality({i \in active : videos[i].type = "image"})
                books == {videos[i].bookTitle : i \in active}
            IN  \E recent \in SortedOrders(active, "createdAt", -1) :
                    resp' = [op |-> "getVideoStats", status |-> 200,
                             totals |-> [videos |-> totalVideos, images |-> totalImages,
                                         views |-> SumViews(active),
                                         total |-> totalVideos + totalImages],
                             topBooks |-> {[_id |-> b,
                                            count |-> Cardinality({i \in active :
                                                          videos[i].bookTitle = b})] : b \in books},
                             recentVideos |-> Limit(recent, 5)]

-----------------------------------------------------------------------------
(* The requests the model draws from *)

TitleAbc == <<"a", "b", "c">>
TitleSpaced == <<" ", "B", "c", "a", " ">>
Description == <<"a", "b", "c", " ", "a", "b", "c", " ", "a", "b">>
BookOp == <<"O", "p">>
BookCop == <<"c", "o", "p">>
VideoId == <<"d", "Q", "w", "4", "w", "9", "W", "g", "X", "c", "Q">>
TokenMixed == <<"a", "_", "-", "Z", "0", "9", "b", "c", "d", "e", "f">>
WatchUrl == Https \o Www \o WatchMarker \o VideoId
ShortUrl == Https \o ShortMarker \o VideoId \o <<"?", "t", "=", "3", "0">>
LegacyUrl == Https \o Www \o LegacyMarker \o VideoId
OtherUrl == Https \o <<"e", "x", ".", "c", "o", "m", "/", "a", "b", "c">>

VideoBody ==
    [title |-> TitleAbc, description |-> Description, bookTitle |-> BookOp,
     chapter |-> <<"1">>, type |-> "video", youtubeUrl |-> WatchUrl]

ImageBody ==
    [title |-> TitleSpaced, description |-> Description, bookTitle |-> BookCop,
     chapter |-> <<"2">>, type |-> "image", difficulty |-> "hard",
     tags |-> <<"o", "p", ",", " ", "c">>]

\* bodies of POST requests: accepted ones, and one for each way to be refused
CreateBodies ==
    {VideoBody,
     ImageBody,
     [VideoBody EXCEPT !.youtubeUrl = ShortUrl, !.chapter = <<"2">>],
     [VideoBody EXCEPT !.youtubeUrl = LegacyUrl],
     [VideoBody EXCEPT !.youtubeUrl = OtherUrl],
     [VideoBody EXCEPT !.type = "audio"],
     [k \in DOMAIN VideoBody \ {"youtubeUrl"} |-> VideoBody[k]]}

\* the fields of a PUT request that the chain requires
EditBody == [k \in DOMAIN VideoBody \ {"youtubeUrl"} |-> VideoBody[k]]

\* bodies of PUT requests
UpdateBodies ==
    {EditBody,
     EditBody @@ ("isActive" :> TRUE),
     ImageBody @@ ("views" :> 0),
     [EditBody EXCEPT !.type = "audio"]}

\* bodies of PUT requests that carry a link, an identifier or a view count
LinkBodies ==
    {EditBody,
     [VideoBody EXCEPT !.youtubeUrl = Https \o ShortMarker \o TokenMixed],
     [VideoBody EXCEPT !.youtubeUrl = LegacyUrl],
     EditBody @@ ("youtubeVideoId" :> TokenMixed),
     ImageBody @@ ("thumbnailUrl" :> OtherUrl),
     EditBody @@ ("views" :> -1)}

\* query strings of Spec: filters, with little pagination
FilterQueries ==
    {Empty,
     [type |-> "video"],
     [type |-> "audio"],
     [difficulty |-> "hard"],
     [difficulty |-> "extreme"],
     [bookTitle |-> <<"o", "p">>],
     [bookTitle |-> <<"(">>],
     [search |-> <<"c">>, limit |-> <<"1">>],
     [type |-> "image", difficulty |-> "hard", bookTitle |-> <<"c", ".", "p">>,
      chapter |-> <<"2">>, search |-> <<"O", "P">>],
     [page |-> <<"2">>, limit |-> <<"1">>, sortBy |-> "views", sortOrder |-> "asc"]}

\* query strings of SpecList: pagination and sorting, without filters
PageQueries ==
    {a @@ b @@ c @@ d :
        a \in Opt("page", {<<"x">>, <<"0">>, <<"2">>, <<"3">>, <<"-", "5">>, <<"-", "1">>}),
        b \in Opt("limit", {<<"a", "b", "c">>, <<"0", "0">>, <<"1">>, <<"2">>,
                             <<"5", "0", "0">>, <<"-", "3">>}),
        c \in Opt("sortBy", {"createdAt", "updatedAt", "title", "views", "likes", "bogus"}),
        d \in Opt("sortOrder", {"asc", "desc", "up"})}

BookParams == {<<"o", "p">>, <<"c">>, <<"(">>}

-----------------------------------------------------------------------------
(* Overlapping getVideoById invocations: what document.save() writes *)

\* a save() that increments the stored view count in the store: $inc
saveDocumentInc(stored, loaded, doc) == [stored EXCEPT !.views = @ + 1]

\* a save() that writes every path of the in-memory document
saveDocumentWhole(stored, loaded, doc) == doc

\* the stored document after save() of the in-memory document doc that was
\* loaded as loaded: save() sends the paths that were modified since loading,
\* and the store keeps its own value of every other path
saveDocument(stored, loaded, doc) ==
    [k \in DOMAIN stored |-> IF doc[k] # loaded[k] THEN doc[k] ELSE stored[k]]

-----------------------------------------------------------------------------
(* The page: class VideoManager *)

\* the fields of a VideoManager before its constructor loads the gallery.
\* videos is the listing the page holds: whether one was ever stored, whether
\* it has entries, the search it was made with and the catalog content it saw;
\* more says that the listing has further pages. The record also holds the
\* page's surroundings: the grid of the document ("none", "loading" or
\* "cards", and whether the cards have delete buttons), the notification, the
\* pending search timer, the fetches in flight, the text last typed in the
\* search box and the content of the catalog, counted in changes.
VideoManagerFields ==
    [videos |-> [listed |-> FALSE, some |-> FALSE, search |-> Undefined, content |-> 0],
     more |-> FALSE,
     isLoading |-> FALSE,
     filters |-> Undefined,
     adminUnlocked |-> FALSE,
     grid |-> "none",
     deletable |-> FALSE,
     notification |-> "none",
     searchTimeout |-> Null,
     fetches |-> <<>>,
     typed |-> Null,
     content |-> 0]

\* loadVideos that starts its fetch whatever isLoading says
loadVideosUnguarded(m, search) ==
    [m EXCEPT !.isLoading = TRUE, !.grid = "loading", !.deletable = FALSE,
              !.fetches = Append(@, [kind |-> "list", search |-> search,
                                     content |-> m.content])]

\* loadVideos(page, { search }) up to its first await: nothing when a guarded
\* request is in flight, else isLoading, showLoading() and the listing fetch
loadVideos(m, search) ==
    IF m.isLoading THEN m
    ELSE [m EXCEPT !.isLoading = TRUE, !.grid = "loading", !.deletable = FALSE,
                   !.fetches = Append(@, [kind |-> "list", search |-> search,
                                          content |-> m.content])]

\* new VideoManager(): the constructor ends with this.loadVideos()
NewVideoManager == loadVideos(VideoManagerFields, Undefined)

\* displayVideos(): the cards of this.videos, with delete buttons for an
\* unlocked page, or the "No videos found" message
displayVideos(m) ==
    [m EXCEPT !.grid = IF m.videos.some THEN "cards" ELSE "none",
              !.deletable = m.videos.some /\ m.adminUnlocked]

\* the sequence without its i-th element
Without(seq, i) == SubSeq(seq, 1, i - 1) \o SubSeq(seq, i + 1, Len(seq))

\* loadVideos from the response of its fetch on: a listing (data.success)
\* with or without entries and further pages, made of the catalog content
\* seen, or a failure response, or a rejected fetch
loadVideosResponse(m, i, outcome, some, more, seen) ==
    LET arrived == [m EXCEPT !.fetches = Without(@, i)]
        handled ==
            IF outcome = "success"
            THEN displayVideos([arrived EXCEPT
                     !.videos = [listed |-> TRUE, some |-> some,
                                 search |-> m.fetches[i].search, content |-> seen],
                     !.filters = m.fetches[i].search,
                     !.more = more])
            ELSE [arrived EXCEPT !.notification = "error"]
    IN  \* finally: isLoading, and hideLoading() takes the loading message away
        [handled EXCEPT !.isLoading = FALSE,
                        !.grid = IF @ = "loading" THEN "none" ELSE @]

\* handleUpload(e) up to its first await, with a form that collectFormData()
\* accepts: nothing when a guarded request is in flight
handleUpload(m) ==
    IF m.isLoading THEN m
    ELSE [m EXCEPT !.isLoading = TRUE,
                   !.fetches = Append(@, [kind |-> "upload", search |-> Undefined,
                                          content |-> m.content])]

\* handleUpload from the response of its fetch on; the catalog has the new
\* entry when the response says success
handleUploadResponse(m, i, outcome) ==
    LET arrived == [m EXCEPT !.fetches = Without(@, i)]
        handled ==
            IF outcome = "success"
            THEN loadVideos([arrived EXCEPT !.notification = "uploaded",
                                            !.content = @ + 1], Undefined)
            ELSE [arrived EXCEPT !.notification = "error"]
    IN  [handled EXCEPT !.isLoading = FALSE]

\* deleteVideo(videoId) of the page up to its first await, confirmed
deleteVideoClick(m) ==
    [m EXCEPT !.fetches = Append(@, [kind |-> "delete", search |-> Undefined,
                                     content |-> m.content])]

\* deleteVideo of the page from the response of its fetch on
deleteVideoResponse(m, i, outcome) ==
    LET arrived == [m EXCEPT !.fetches = Without(@, i)]
    IN  IF outcome = "success"
        THEN loadVideos([arrived EXCEPT !.notification = "deleted",
                                        !.content = @ + 1], Undefined)
        ELSE [arrived EXCEPT !.notification = "error"]

\* handlePasswordSubmit(e) with the password
handlePasswordSubmit(m) == displayVideos([m EXCEPT !.adminUnlocked = TRUE])

\* handleLogout(e)
handleLogout(m) == displayVideos([m EXCEPT !.adminUnlocked = FALSE])

\* handleSearch(query): the pending timer is cleared and a new one set
handleSearch(m, query) == [m EXCEPT !.searchTimeout = <<query>>, !.typed = <<query>>]

\* the search filter that the timer's callback puts in its copy of this.filters
SearchFilter(query) == IF Trim(query) # <<>> THEN Trim(query) ELSE Undefined

\* the callback of handleSearch's timer, 500 ms after the last keystroke
searchCallback(m) ==
    [loadVideos(m, SearchFilter(m.searchTimeout[1])) EXCEPT !.searchTimeout = Null]

\* the Previous/Next buttons of updatePagination()
pageClick(m) == loadVideos(m, m.filters)

-----------------------------------------------------------------------------
(* The catalog service *)

\* an invocation slot that serves no request
NoCall == [pc |-> "idle"]

Init ==
    /\ videos = <<>>
    /\ req = [op |-> "none"]
    /\ resp = [op |-> "none", status |-> 0]
    /\ calls = [c \in 1..MaxCalls |-> NoCall]
    /\ ui = NewVideoManager

\* In the actions below, down says that the store fails under the request.

\* no response is on its way: the service takes the next request
Idle == resp.op = "none"

\* the service takes a request and serves it in one piece; the overlapping
\* invocations and the page are not involved
Serve == Idle /\ UNCHANGED <<calls, ui>>

\* the client receives the response
Deliver ==
    /\ ~Idle
    /\ req' = [op |-> "none"]
    /\ resp' = [op |-> "none", status |-> 0]
    /\ UNCHANGED <<videos, calls, ui>>

GetAllVideos == Serve /\ \E q \in FilterQueries, down \in BOOLEAN : getAllVideos(q, ~down)
GetVideoById == Serve /\ \E id \in RequestIds, down \in BOOLEAN : getVideoById(id, ~down)
CreateVideo ==
    /\ Serve
    /\ \E body \in CreateBodies, f \in BOOLEAN, down \in BOOLEAN : createVideo(body, f, ~down)
    /\ Len(videos') <= MaxVideos
UpdateVideo ==
    Serve /\ \E id \in RequestIds, body \in UpdateBodies, down \in BOOLEAN : updateVideo(id, body, ~down)
DeleteVideo == Serve /\ \E id \in RequestIds, down \in BOOLEAN : deleteVideo(id, ~down)
GetUniqueBooks == Serve /\ \E down \in BOOLEAN : getUniqueBooks(~down)
GetChaptersByBook == Serve /\ \E b \in BookParams, down \in BOOLEAN : getChaptersByBook(b, ~down)
GetVideoStats == Serve /\ \E down \in BOOLEAN : getVideoStats(~down)

Next ==
    \/ GetAllVideos
    \/ GetVideoById
    \/ CreateVideo
    \/ UpdateVideo
    \/ DeleteVideo
    \/ GetUniqueBooks
    \/ GetChaptersByBook
    \/ GetVideoStats
    \/ Deliver

Spec == Init /\ [][Next]_vars

\* the listing under every page, limit and sort parameter, over a collection
\* that grows by creations and shrinks by soft deletions
ListPaged == Serve /\ \E q \in PageQueries : getAllVideos(q, TRUE)
ListCreate == Serve /\ Len(videos) < MaxListed /\ \E body \in {VideoBody, ImageBody} : createVideo(body, TRUE, TRUE)
ListDelete == Serve /\ \E id \in 1..MaxListed : deleteVideo(id, TRUE)

NextList ==
    \/ ListPaged
    \/ ListCreate
    \/ ListDelete
    \/ Deliver

SpecList == Init /\ [][NextList]_vars

\* creations and updates whose bodies carry links and identifiers
WriteCreate ==
    /\ Serve
    /\ \E body \in CreateBodies, f \in BOOLEAN, down \in BOOLEAN : createVideo(body, f, ~down)
    /\ Len(videos') <= MaxVideos
WriteUpdate ==
    Serve /\ \E id \in RequestIds, body \in LinkBodies, down \in BOOLEAN : updateVideo(id, body, ~down)

NextWrite ==
    \/ WriteCreate
    \/ WriteUpdate
    \/ Deliver

SpecWrite == Init /\ [][NextWrite]_vars

\* every operation that writes, over a collection of several documents
FrameCreate ==
    Serve /\ Len(videos) < MaxFramed /\ \E body \in {VideoBody, ImageBody} : createVideo(body, TRUE, TRUE)
FrameUpdate == Serve /\ \E id \in 0..MaxFramed : updateVideo(id, EditBody @@ ("isActive" :> TRUE), TRUE)
FrameDelete == Serve /\ \E id \in 0..MaxFramed, down \in BOOLEAN : deleteVideo(id, ~down)
FrameGet == Serve /\ \E id \in 0..MaxFramed : getVideoById(id, TRUE)

NextFrame ==
    \/ FrameCreate
    \/ FrameUpdate
    \/ FrameDelete
    \/ FrameGet
    \/ Deliver

SpecFrame == Init /\ [][NextFrame]_vars

\* getVideoById invocations that overlap with each other and with deletions:
\* an invocation reads the document, and writes it back in a later step. The
\* invocations have no identity: a new one takes the first free slot. Their
\* steps are taken between the requests that the service serves in one piece.
FindById(c, id) ==
    /\ Idle
    /\ calls[c].pc = "idle" /\ \A d \in 1..(c - 1) : calls[d].pc # "idle"
    /\ calls' = [calls EXCEPT ![c] =
                   IF ~Exists(id) \/ ~videos[id].isActive
                   THEN [pc |-> "done", id |-> id, status |-> 404]
                   ELSE [pc |-> "save", id |-> id, video |-> videos[id]]]
    /\ UNCHANGED <<videos, req, resp, ui>>

\* await video.incrementViews(), then the response with the in-memory
\* document: the invocation keeps the view count it read, the view count and
\* the isActive it answers, and whether the stored document had changed
Save(c) ==
    /\ Idle
    /\ calls[c].pc = "save"
    /\ LET id == calls[c].id
           loaded == calls[c].video
           doc == incrementViews(loaded)
       IN  IF ~schemaValid(doc)
           THEN /\ calls' = [calls EXCEPT ![c] = [pc |-> "done", id |-> id, status |-> 500]]
                /\ UNCHANGED videos
           ELSE /\ preSave(doc).views <= MaxViews
                /\ videos' = Touch([videos EXCEPT
                                       ![id] = saveDocument(videos[id], loaded, preSave(doc))], id)
                /\ calls' = [calls EXCEPT ![c] =
                               [pc |-> "done", id |-> id, status |-> 200,
                                read |-> loaded.views,
                                data |-> [views |-> preSave(doc).views,
                                          isActive |-> preSave(doc).isActive],
                                stale |-> videos[id] # loaded]]
    /\ UNCHANGED <<req, resp, ui>>

\* the client of an invocation receives its response
Respond(c) ==
    /\ Idle
    /\ calls[c].pc = "done"
    /\ calls' = [calls EXCEPT ![c] = NoCall]
    /\ UNCHANGED <<videos, req, resp, ui>>

\* the document that the invocations overlap on is the only one
RaceCreate == Serve /\ videos = <<>> /\ createVideo(VideoBody, FALSE, TRUE)
RaceDelete == Serve /\ \E id \in 1..MaxVideos : deleteVideo(id, TRUE)

NextRace ==
    \/ \E c \in 1..MaxCalls, id \in 1..MaxVideos : FindById(c, id)
    \/ \E c \in 1..MaxCalls : Save(c)
    \/ \E c \in 1..MaxCalls : Respond(c)
    \/ RaceCreate
    \/ RaceDelete
    \/ Deliver

SpecRace == Init /\ [][NextRace]_vars

-----------------------------------------------------------------------------
(* Identifier extraction on its own: both extractors over links of every
   shape, with tokens of 10, 11 and 12 characters and with trailing text *)

TokenShort == SubSeq(VideoId, 1, 10)
TokenLong == VideoId \o <<"A">>
TokenPath == VideoId \o <<"/", "x">>

Schemes == {<<>>, Http, Https}
Subdomains == {<<>>, Www}
Markers == {WatchMarker, ShortMarker, EmbedMarker, LegacyMarker}
Tokens == {VideoId, TokenMixed, TokenShort, TokenLong, TokenPath}
Suffixes == {<<>>, <<"?", "t", "=", "3", "0">>, <<"&", "t", "=", "1">>, <<"#", "x">>}

\* the request that asks for the identifier of a link put together from parts
ExtractRequest(op, scheme, www, marker, token, suffix) ==
    [op |-> op, url |-> scheme \o www \o marker \o token \o suffix,
     scheme |-> scheme, www |-> www, marker |-> marker, token |-> token,
     suffix |-> suffix]

ExtractYoutubeVideoId ==
    /\ Serve
    /\ \E scheme \in Schemes, www \in Subdomains, marker \in Markers,
          token \in Tokens, suffix \in Suffixes :
         /\ req' = ExtractRequest("extractYoutubeVideoId", scheme, www, marker, token, suffix)
         /\ resp' = [op |-> "extractYoutubeVideoId", status |-> 0,
                     id |-> extractYoutubeVideoId(req'.url)]
    /\ UNCHANGED videos

ExtractVideoId ==
    /\ Serve
    /\ \E scheme \in Schemes, www \in Subdomains, marker \in Markers,
          token \in Tokens, suffix \in Suffixes :
         /\ req' = ExtractRequest("extractVideoId", scheme, www, marker, token, suffix)
         /\ resp' = [op |-> "extractVideoId", status |-> 0,
                     id |-> extractVideoId(req'.url)]
    /\ UNCHANGED videos

NextExtract ==
    \/ ExtractYoutubeVideoId
    \/ ExtractVideoId
    \/ Deliver

SpecExtract == Init /\ [][NextExtract]_vars

-----------------------------------------------------------------------------
(* Embed URLs on their own: getEmbedUrl over every combination of supplied
   and unsupplied options *)

\* the options objects: each key is absent or carries a value of its type,
\* a flag or an offset in seconds
EmbedOptions ==
    {flags @@ offsets :
        flags \in UNION {[keys -> BOOLEAN] :
                            keys \in SUBSET {"autoplay", "mute", "controls", "showinfo", "rel"}},
        offsets \in UNION {[keys -> {0, 30}] : keys \in SUBSET {"start", "end"}}}

GetEmbedUrl ==
    /\ Serve
    /\ \E videoId \in {VideoId, TokenMixed, <<>>}, options \in EmbedOptions :
         /\ req' = [op |-> "getEmbedUrl", videoId |-> videoId, options |-> options]
         /\ resp' = [op |-> "getEmbedUrl", status |-> 0,
                     data |-> getEmbedUrl(videoId, options)]
    /\ UNCHANGED videos

NextEmbed ==
    \/ GetEmbedUrl
    \/ Deliver

SpecEmbed == Init /\ [][NextEmbed]_vars

-----------------------------------------------------------------------------
(* The page on its own: the user's clicks and keystrokes, the search timer
   and the responses of the page's fetches *)

Outcomes == {"success", "failure", "throw"}

\* what is typed in the search box
Queries == {<<"a">>, <<"b", " ">>, <<" ">>}

InFlight(kind) == {i \in 1..Len(ui.fetches) : ui.fetches[i].kind = kind}

\* the catalog service, which the page's steps leave alone
service == <<videos, req, resp, calls>>

ListResponse ==
    \E i \in InFlight("list"), outcome \in Outcomes, some, more \in BOOLEAN,
       seen \in 0..MaxChanges :
        /\ more => some
        /\ seen \in ui.fetches[i].content..ui.content
        /\ outcome # "success" => ~some /\ seen = ui.content
        /\ ui' = loadVideosResponse(ui, i, outcome, some, more, seen) /\ UNCHANGED service

ClickUpload == ~ui.isLoading /\ ui' = handleUpload(ui) /\ UNCHANGED service

UploadResponse ==
    \E i \in InFlight("upload"), outcome \in Outcomes :
        /\ outcome = "success" => ui.content < MaxChanges
        /\ ui' = handleUploadResponse(ui, i, outcome) /\ UNCHANGED service

ClickDelete ==
    /\ ui.grid = "cards" /\ ui.deletable
    /\ Cardinality(InFlight("delete")) < MaxDeletes
    /\ ui' = deleteVideoClick(ui) /\ UNCHANGED service

DeleteResponse ==
    \E i \in InFlight("delete"), outcome \in Outcomes :
        /\ outcome = "success" => ui.content < MaxChanges
        /\ ui' = deleteVideoResponse(ui, i, outcome) /\ UNCHANGED service

PasswordSubmit == ~ui.adminUnlocked /\ ui' = handlePasswordSubmit(ui) /\ UNCHANGED service

Logout == ui.adminUnlocked /\ ui' = handleLogout(ui) /\ UNCHANGED service

TypeSearch ==
    \E query \in Queries :
        /\ ui' = handleSearch(ui, query) /\ UNCHANGED service

SearchTimer == ui.searchTimeout # Null /\ ui' = searchCallback(ui) /\ UNCHANGED service

ClickPage == ui.more /\ ~ui.isLoading /\ ui' = pageClick(ui) /\ UNCHANGED service

NextUi ==
    \/ ListResponse
    \/ ClickUpload
    \/ UploadResponse
    \/ ClickDelete
    \/ DeleteResponse
    \/ PasswordSubmit
    \/ Logout
    \/ TypeSearch
    \/ SearchTimer
    \/ ClickPage

SpecUi == Init /\ [][NextUi]_vars

\* every fetch is answered or fails, and a set timer fires
SpecUiFair ==
    /\ SpecUi
    /\ WF_vars(ListResponse)
    /\ WF_vars(UploadResponse)
    /\ WF_vars(DeleteResponse)
    /\ WF_vars(SearchTimer)

-----------------------------------------------------------------------------
(* The upload step in front of createVideo and updateVideo: uploadMiddleware,
   and the handler when the middleware calls next() *)

\* what uploadSingle hands to its callback: no error, a MulterError with its
\* code, or the Error of imageFilter
NoError == [kind |-> "none"]
MulterError(code) == [kind |-> "MulterError", code |-> code]

\* the MulterError codes that a request can raise under the limits of upload
MulterCodes ==
    {"LIMIT_FIELD_VALUE", "LIMIT_FIELD_KEY", "MISSING_FIELD_NAME",
     "LIMIT_FILE_SIZE", "LIMIT_FILE_COUNT", "LIMIT_UNEXPECTED_FILE"}

UploadErrors == {MulterError(code) : code \in MulterCodes} \cup {[kind |-> "Error"]}

\* the callback of uploadMiddleware: the response it sends, or next()
uploadMiddleware(err) ==
    IF err.kind = "MulterError" /\ err.code = "LIMIT_FILE_SIZE"
    THEN [sent |-> TRUE, status |-> 413]
    ELSE IF err.kind = "MulterError" /\ err.code = "LIMIT_FILE_COUNT"
    THEN [sent |-> TRUE, status |-> 400]
    ELSE IF err.kind = "MulterError" /\ err.code = "LIMIT_UNEXPECTED_FILE"
    THEN [sent |-> TRUE, status |-> 400]
    ELSE IF err.kind = "Error"
    THEN [sent |-> TRUE, status |-> 400]
    ELSE [sent |-> FALSE, status |-> 0]

\* a POST or PUT request reaches uploadMiddleware: the request is answered
\* there, or it goes on to the handler with what the upload parsed
Upload(route, id, body, hasFile, err) ==
    /\ Serve
    /\ req.op # "upload"
    /\ LET result == uploadMiddleware(err)
       IN  /\ req' = [op |-> "upload", route |-> route, id |-> id, body |-> body,
                      file |-> hasFile /\ err = NoError, err |-> err,
                      next |-> ~result.sent]
           /\ resp' = IF result.sent THEN [op |-> "upload", status |-> result.status]
                      ELSE resp
    /\ UNCHANGED videos

UploadPost ==
    \E body \in CreateBodies, f \in BOOLEAN, err \in UploadErrors \cup {NoError} :
        Upload("POST", 0, body, f, err)

UploadPut ==
    \E id \in RequestIds, body \in UpdateBodies, err \in UploadErrors \cup {NoError} :
        Upload("PUT", id, body, FALSE, err)

\* next(): the validation chain and the handler of the route
PostHandler ==
    /\ Serve
    /\ req.op = "upload" /\ req.next /\ req.route = "POST"
    /\ \E down \in BOOLEAN : createVideo(req.body, req.file, ~down)
    /\ Len(videos') <= MaxVideos

PutHandler ==
    /\ Serve
    /\ req.op = "upload" /\ req.next /\ req.route = "PUT"
    /\ \E down \in BOOLEAN : updateVideo(req.id, req.body, ~down)

NextUpload ==
    \/ UploadPost
    \/ UploadPut
    \/ PostHandler
    \/ PutHandler
    \/ Deliver

SpecUpload == Init /\ [][NextUpload]_vars

-----------------------------------------------------------------------------
(* Properties *)

ActiveIds == {i \in 1..Len(videos) : videos[i].isActive}

Listed == resp.op = "getAllVideos" /\ resp.status = 200

\* the listing reached the point where it computes what it hands the store
Paged == resp.op = "getAllVideos" /\ Has(resp, "args")

\* C1: a soft-deleted document is never in the listing's data nor in its
\* count, getVideoById answers it without data (404, or 500 when the store
\* fails), getVideoStats neither counts nor lists it, and it contributes no
\* value to getUniqueBooks or getChaptersByBook.
C1_InactiveNeverReturned ==
    /\ Listed =>
         /\ \A i \in 1..Len(resp.data) : resp.data[i] \in ActiveIds
         /\ resp.pagination.totalCount =
              Cardinality({i \in ActiveIds : listFilters(req.query, videos[i])})
    /\ (resp.op = "getVideoById" /\ Exists(req.id) /\ ~videos[req.id].isActive) =>
         resp.status \in {404, 500} /\ ~Has(resp, "data")
    /\ (resp.op = "getVideoStats" /\ resp.status = 200) =>
         /\ resp.totals.videos = Cardinality({i \in ActiveIds : videos[i].type = "video"})
         /\ resp.totals.images = Cardinality({i \in ActiveIds : videos[i].type = "image"})
         /\ resp.totals.total = Cardinality(ActiveIds)
         /\ resp.totals.views = SumViews(ActiveIds)
         /\ \A i \in 1..Len(resp.recentVideos) : resp.recentVideos[i] \in ActiveIds
         /\ \A b \in resp.topBooks :
              b.count = Cardinality({i \in ActiveIds : videos[i].bookTitle = b._id})
                /\ b.count >= 1
    /\ (resp.op = "getUniqueBooks" /\ resp.status = 200) =>
         \A k \in 1..Len(resp.data) : \E i \in ActiveIds : videos[i].bookTitle = resp.data[k]
    /\ (resp.op = "getChaptersByBook" /\ resp.status = 200) =>
         \A k \in 1..Len(resp.data) : \E i \in ActiveIds : videos[i].chapter = resp.data[k]

\* C1 witness: a listing with filters answered 200 while a soft-deleted
\* document matches every one of its filters.
C1_Witness ==
    /\ Listed
    /\ Truthy(req.query, "bookTitle") /\ TruthyEnum(req.query, "type")
    /\ \E i \in 1..Len(videos) :
         ~videos[i].isActive /\ listFilters(req.query, videos[i])

C3_LimitClamped ==
    Paged =>
        LET given == ParseInt(Param(req.query, "limit", <<"1", "0">>))
        IN  /\ resp.args.pageSize \in 1..50
            /\ (~given.nan /\ given.v > 50) => resp.args.pageSize = 50
            /\ (~given.nan /\ given.v < 1) => resp.args.pageSize = 1

\* C4: the page number the listing uses and reports is at least 1, and the
\* skip offset it hands the store is never negative.
C4_PageAtLeastOne ==
    Paged =>
        /\ resp.args.pageNumber >= 1
        /\ resp.args.skip >= 0
        /\ resp.status = 200 => resp.pagination.currentPage >= 1

\* C5: the skip offset is (page - 1) * limit of the effective page and limit,
\* and the listing returns at most limit items.
C5_SkipAndCount ==
    Paged =>
        /\ resp.args.skip = (resp.args.pageNumber - 1) * resp.args.pageSize
        /\ resp.status = 200 => Len(resp.data) <= resp.args.pageSize

\* C6: totalPages is ceil(totalCount / limit); with totalCount 0 it is 0 and
\* hasNextPage and hasPrevPage are both false, whatever the page.
C6_TotalPages ==
    Listed =>
        LET p == resp.pagination
        IN  /\ p.totalPages = CeilDiv(p.totalCount, resp.args.pageSize)
            /\ p.totalCount = 0 =>
                 p.totalPages = 0 /\ ~p.hasNextPage /\ ~p.hasPrevPage

\* C7: hasNextPage is page < totalPages, hasPrevPage is page > 1, nextPage
\* and prevPage are the adjacent page or null, and a non-null nextPage or
\* prevPage is a page in 1..totalPages.
C7_PageLinks ==
    Listed =>
        LET p == resp.pagination
        IN  /\ p.hasNextPage <=> p.currentPage < p.totalPages
            /\ p.hasPrevPage <=> p.currentPage > 1
            /\ p.nextPage = IF p.hasNextPage THEN <<p.currentPage + 1>> ELSE Null
            /\ p.prevPage = IF p.hasPrevPage THEN <<p.currentPage - 1>> ELSE Null
            /\ p.nextPage # Null => p.nextPage[1] \in 1..p.totalPages
            /\ p.prevPage # Null => p.prevPage[1] \in 1..p.totalPages

SortFields == {"createdAt", "updatedAt", "title", "views", "likes"}

\* C8: a sortBy outside createdAt, updatedAt, title, views, likes sorts by
\* createdAt, one inside sorts by itself, and neither is rejected.
C8_SortField ==
    Paged =>
        /\ resp.status # 400
        /\ resp.args.sortField =
             IF Has(req.query, "sortBy") /\ req.query.sortBy \in SortFields
             THEN req.query.sortBy ELSE "createdAt"

\* C9: asc sorts ascending; desc, and every other sortOrder or none, sorts
\* descending.
C9_SortOrder ==
    Paged =>
        resp.args.sortDir =
            IF Has(req.query, "sortOrder") /\ req.query.sortOrder = "asc" THEN 1 ELSE -1

\* C10: a listing request whose type is not video or image, or whose
\* difficulty is not easy, medium or hard, is refused with 400 and no query
\* is issued to the store for it.
C10_InvalidEnumRejected ==
    (/\ req.op = "getAllVideos"
     /\ \/ Has(req.query, "type") /\ req.query.type \notin {"video", "image"}
        \/ Has(req.query, "difficulty") /\ req.query.difficulty \notin {"easy", "medium", "hard"})
    => resp.status = 400 /\ ~resp.issued

\* text s occurs in text t as a literal substring, letter case ignored
Contains(t, s) ==
    t # Undefined /\
    \E i \in 0..(Len(t) - Len(s)) : \A j \in 1..Len(s) : ToLower(t[i + j]) = ToLower(s[j])

\* document v satisfies every filter that query q carries
Satisfies(q, v) ==
    /\ Truthy(q, "bookTitle") => Contains(v.bookTitle, q.bookTitle)
    /\ Truthy(q, "chapter") => Contains(v.chapter, q.chapter)
    /\ TruthyEnum(q, "type") => v.type = q.type
    /\ Truthy(q, "subject") => Contains(v.subject, q.subject)
    /\ Truthy(q, "grade") => v.grade = q.grade
    /\ TruthyEnum(q, "difficulty") => v.difficulty = q.difficulty
    /\ Truthy(q, "search") =>
         \/ Contains(v.title, q.search)
         \/ Contains(v.description, q.search)
         \/ Contains(v.bookTitle, q.search)
         \/ Contains(v.chapter, q.search)
         \/ \E i \in 1..Len(v.tags) : Contains(v.tags[i], q.search)

\* C11: a listing answered 200 reports as totalCount the number of active
\* documents that satisfy every filter of the request, and returns the slice
\* [skip, skip + limit) of those documents in the requested order.
C11_CountAndSlice ==
    Listed =>
        LET matching == {i \in ActiveIds : Satisfies(req.query, videos[i])}
            from == resp.args.skip
            upto == Min(resp.args.skip + resp.args.pageSize, Cardinality(matching))
        IN  /\ resp.pagination.totalCount = Cardinality(matching)
            /\ \E order \in SortedOrders(matching, resp.args.sortField, resp.args.sortDir) :
                 resp.data = SubSeq(order, from + 1, upto)

\* C12: a listing whose search, bookTitle, chapter or subject is any string,
\* metacharacters included, is not refused while its query is built, and
\* selects the active documents that contain the string literally, letter
\* case ignored; getChaptersByBook does the same with its bookTitle.
C12_LiteralSubstring ==
    /\ req.op = "getAllVideos" =>
         /\ resp.issued
         /\ resp.status = 200 =>
              resp.pagination.totalCount =
                Cardinality({i \in ActiveIds : Satisfies(req.query, videos[i])})
    /\ (req.op = "getChaptersByBook" /\ resp.status = 200) =>
         \A i \in ActiveIds :
             Contains(videos[i].bookTitle, req.bookTitle) <=>
                 \E k \in 1..Len(resp.data) : resp.data[k] = videos[i].chapter

Extracted == resp.op \in {"extractYoutubeVideoId", "extractVideoId"}

\* an identifier token: exactly 11 characters of [A-Za-z0-9_-]
IsToken(t) == Len(t) = 11 /\ \A i \in 1..11 : t[i] \in IdChars

\* C13: for a link that is an optional protocol, an optional www., the marker
\* of one of the four shapes and an 11-character token, extractYoutubeVideoId
\* and extractVideoId both return the token.
C13_ExtractsFromEveryShape ==
    (Extracted /\ IsToken(req.token) /\ req.suffix = <<>>) => resp.id = req.token

\* C14: an identifier either extractor returns is exactly 11 characters of
\* [A-Za-z0-9_-]: it is the token's first 11 characters, without the text that
\* follows the token, and a token shorter than 11 characters gives none.
C14_ExtractedIsToken ==
    (Extracted /\ resp.id # Undefined) =>
        /\ IsToken(resp.id)
        /\ resp.id = SubSeq(req.token, 1, 11)

\* a link of one of the four accepted shapes: an optional protocol, an optional
\* www., the shape's marker and an 11-character token
MatchesAShape(url) ==
    \E scheme \in Schemes, www \in Subdomains, marker \in Markers :
        LET prefix == scheme \o www \o marker
        IN  StartsAt(url, 1, prefix) /\ ElevenAt(url, Len(prefix) + 1)

\* the request is a creation of type video whose link is a URL of no accepted shape
UnrecognisedLink(r) ==
    /\ r.op = "createVideo" /\ r.body.type = "video"
    /\ Has(r.body, "youtubeUrl") /\ IsURL(r.body.youtubeUrl)
    /\ ~MatchesAShape(r.body.youtubeUrl)

\* C15: a createVideo of type video whose youtubeUrl is a valid URL of none
\* of the four shapes is answered 400 and leaves the collection as it was.
C15_UnrecognisedLinkRejected ==
    [][UnrecognisedLink(req') => resp'.status = 400 /\ videos' = videos]_vars

\* C15 witness: such a request was answered while the collection held a
\* document.
C15_Witness ==
    UnrecognisedLink(req) /\ resp.op = "createVideo" /\ resp.status = 400 /\ Len(videos) = 1

\* the identifier the handler extracts from a stored link, none without a link
IdentifierOf(url) == IF url = Undefined THEN Undefined ELSE extractYoutubeVideoId(url)

\* C16: every stored document of type video has as youtubeVideoId the
\* identifier extracted from its youtubeUrl, and as thumbnailUrl the thumbnail
\* of that identifier.
C16_DerivedFromLink ==
    \A i \in 1..Len(videos) :
        videos[i].type = "video" =>
            /\ videos[i].youtubeVideoId = IdentifierOf(videos[i].youtubeUrl)
            /\ videos[i].thumbnailUrl = Thumbnail(IdentifierOf(videos[i].youtubeUrl))

NonEmpty(t) == t # Undefined /\ t # <<>>

\* C17: every stored document of type video has a youtubeUrl and a
\* youtubeVideoId, and every stored document of type image has a fileUrl.
C17_RequiredByType ==
    \A i \in 1..Len(videos) :
        /\ videos[i].type = "video" =>
             NonEmpty(videos[i].youtubeUrl) /\ NonEmpty(videos[i].youtubeVideoId)
        /\ videos[i].type = "image" => NonEmpty(videos[i].fileUrl)

\* C18: a createVideo of type image without an uploaded file is answered 400
\* and stores nothing.
C18_ImageWithoutFile ==
    [][(req'.op = "createVideo" /\ req'.body.type = "image" /\ ~req'.file) =>
           resp'.status = 400 /\ videos' = videos]_vars

\* C19: getVideoById, updateVideo and deleteVideo on an id whose document is
\* missing or soft-deleted answer without data and never with 200: with 404,
\* unless the request is refused (400) or the store fails (500).
C19_NotFound ==
    [][(/\ req'.op \in {"getVideoById", "updateVideo", "deleteVideo"}
        /\ ~Exists(req'.id) \/ ~videos[req'.id].isActive) =>
           /\ resp'.status \in {400, 404, 500}
           /\ ~Has(resp', "data")
           /\ videos' = videos]_vars

\* C20: no step removes a document, and a deleteVideo changes nothing but the
\* isActive of the document it is answered 200 for, which becomes false, and
\* that document's updatedAt: every other path of it and every other document
\* stay as they were, the other documents in their order of last write.
C20_SoftDeleteFrame ==
    [][/\ Len(videos') >= Len(videos)
       /\ req'.op = "deleteVideo" =>
            /\ Len(videos') = Len(videos)
            /\ \A i \in 1..Len(videos) :
                 /\ \A k \in Paths \ {"updatedAt", "isActive"} : videos'[i][k] = videos[i][k]
                 /\ videos'[i].isActive =
                      IF resp'.status = 200 /\ i = req'.id THEN FALSE ELSE videos[i].isActive
            /\ \A i, j \in 1..Len(videos) \ {req'.id} :
                 (videos[i].updatedAt < videos[j].updatedAt) <=>
                     (videos'[i].updatedAt < videos'[j].updatedAt)
            /\ resp'.status # 200 => videos' = videos
            /\ (Exists(req'.id) /\ resp'.status # 500) => resp'.status = 200]_vars

\* C20 witness: a document that had been read was soft-deleted next to an
\* active one.
C20_Witness ==
    /\ resp.op = "deleteVideo" /\ resp.status = 200 /\ Len(videos) = 2
    /\ ~videos[req.id].isActive /\ videos[req.id].views > 0
    /\ \E j \in 1..Len(videos) : j # req.id /\ videos[j].isActive

\* invocation c writes its document back in this step
SaveStep(c) == calls[c].pc = "save" /\ calls'[c].pc = "done" /\ calls'[c].status = 200

\* C21: an overlapping getVideoById writes back the view count it read plus
\* 1, whatever the store holds by then, and answers with that value: nothing
\* makes it see an increment written in between.
C21_WriteBackOfReadValue ==
    [][\A c \in 1..MaxCalls :
          SaveStep(c) =>
              /\ videos'[calls[c].id].views = calls[c].video.views + 1
              /\ calls'[c].data.views = calls[c].video.views + 1]_vars

\* C21 witness: two invocations on one document were both answered 200, and
\* the stored view count is 1 above the count both of them read.
C21_Witness ==
    \E c, d \in 1..MaxCalls :
        /\ c # d /\ calls[c].pc = "done" /\ calls[d].pc = "done"
        /\ calls[c].status = 200 /\ calls[d].status = 200
        /\ calls[c].id = calls[d].id
        /\ calls[c].read = calls[d].read
        /\ videos[calls[c].id].views = calls[c].read + 1

\* C22: a created document has 0 views, no view count is ever negative, and
\* only a getVideoById answered 200 changes a view count: every other request
\* leaves every stored view count as it was.
C22_ViewsOnlyByRead ==
    [][/\ \A i \in 1..Len(videos') :
            /\ videos'[i].views >= 0
            /\ i > Len(videos) => videos'[i].views = 0
       /\ ~(req'.op = "getVideoById" /\ resp'.status = 200) =>
            \A i \in 1..Len(videos) : videos'[i].views = videos[i].views]_vars

\* C24: a document whose isActive is false keeps it false in every later
\* state, under create, update, delete and getVideoById requests of any body.
C24_DeletedStaysDeleted ==
    [][\A i \in 1..Len(videos) : ~videos[i].isActive => ~videos'[i].isActive]_vars

\* C25: when getVideoById overlaps with deleteVideo, the write-back leaves
\* isActive as the store holds it, so a document that was soft-deleted before
\* or between the invocation's two steps is soft-deleted after them.
C25_WriteBackKeepsDeletion ==
    [][/\ \A c \in 1..MaxCalls :
            SaveStep(c) => videos'[calls[c].id].isActive = videos[calls[c].id].isActive
       /\ \A i \in 1..Len(videos) :
            (~videos[i].isActive \/ (req'.op = "deleteVideo" /\ req'.id = i /\ resp'.status = 200))
                => ~videos'[i].isActive]_vars

\* C25 witness: an invocation read the document while it was active, the
\* deletion came before its write-back, and after its answer 200 the document
\* is soft-deleted with the incremented view count.
C25_Witness ==
    \E c \in 1..MaxCalls :
        /\ calls[c].pc = "done" /\ calls[c].status = 200 /\ calls[c].stale
        /\ calls[c].data.isActive
        /\ ~videos[calls[c].id].isActive
        /\ videos[calls[c].id].views = calls[c].read + 1

\* the query string of an embed URL has a parameter of this key
HasParam(url, key) ==
    Contains(url, <<"?">> \o key \o <<"=">>) \/ Contains(url, <<"&">> \o key \o <<"=">>)

\* the query string of an embed URL has this key with this value, and the
\* value ends there
HasParamValue(url, key, value) ==
    \E lead \in {<<"?">>, <<"&">>} :
        LET text == lead \o key \o <<"=">> \o value
        IN  \E i \in 0..(Len(url) - Len(text)) :
               /\ SubSeq(url, i + 1, i + Len(text)) = text
               /\ i + Len(text) = Len(url) \/ url[i + Len(text) + 1] = "&"

\* C23: for an identifier and an options object, the embed URL has a
\* parameter for an option exactly when options carries it: a supplied flag
\* (autoplay, mute, controls, rel) as 1 when true and 0 when false, a supplied
\* start or end offset, 0 included, as its decimal text.
C23_ParamIffSupplied ==
    (req.op = "getEmbedUrl" /\ req.videoId # <<>>) =>
        /\ \A key \in {"autoplay", "mute", "controls", "rel"} :
              LET text == ParamKey[key]
              IN  IF Has(req.options, key)
                  THEN HasParamValue(resp.data, text, IF req.options[key] THEN <<"1">> ELSE <<"0">>)
                  ELSE ~HasParam(resp.data, text)
        /\ \A key \in {"start", "end"} :
              LET text == ParamKey[key]
              IN  IF Has(req.options, key)
                  THEN HasParamValue(resp.data, text, NumberText(req.options[key]))
                  ELSE ~HasParam(resp.data, text)

\* the guarded requests of the page that are in flight
Guarded == InFlight("list") \cup InFlight("upload")

\* C26: when the page handles the success response of an upload or of a
\* deletion, it issues a listing request in that step, whatever else is in
\* flight: a listing fetch issued with the catalog's new content is in flight
\* after the step.
C26_ReloadAfterChange ==
    [][ui'.content = ui.content + 1 =>
          \E j \in 1..Len(ui'.fetches) :
              /\ ui'.fetches[j].kind = "list"
              /\ ui'.fetches[j].content = ui'.content]_vars

\* C27: at most one guarded request (listing fetch or upload) is in flight,
\* and isLoading is true exactly while one is; so isLoading is false again
\* once that request has succeeded, failed or thrown.
C27_OneGuardedRequest ==
    /\ Cardinality(Guarded) <= 1
    /\ ui.isLoading <=> Cardinality(Guarded) = 1

\* C27 witness: after a listing was displayed, an upload is in flight with
\* isLoading true while a deletion, which is not guarded, is in flight too.
C27_Witness ==
    /\ ui.videos.listed /\ ui.isLoading
    /\ InFlight("upload") # {} /\ InFlight("delete") # {}

\* the gallery holds a listing made with the search of query q
Shows(q) == ui.videos.listed /\ ui.videos.search = SearchFilter(q)

\* a listing request with the search of query q is in flight
Asked(q) == \E i \in InFlight("list") : ui.fetches[i].search = SearchFilter(q)

\* C28: once q is the last text typed, the page comes to ask for or to show
\* the listing of q's search, unless the user types again: the search that
\* the timer fires is not lost to a request in flight.
C28_LastQueryShown ==
    \A q \in Queries :
        (ui.typed = <<q>>) ~> (ui.typed # <<q>> \/ Asked(q) \/ Shows(q))

\* the upload step of the request reported an error
UploadFailed(r) == r.op = "upload" /\ r.err # NoError

\* C29: when the upload step of a request reports an error of any kind,
\* uploadMiddleware answers the request, with 413 for an oversized file and
\* with 400 for every other error, and neither createVideo nor updateVideo is
\* invoked for it.
C29_UploadErrorAnswered ==
    [][/\ UploadFailed(req') =>
            /\ resp'.op = "upload"
            /\ resp'.status = IF req'.err = MulterError("LIMIT_FILE_SIZE") THEN 413 ELSE 400
       /\ UploadFailed(req) => req'.op \notin {"createVideo", "updateVideo"}]_vars

====
